---- MODULE Spec2Model ----
(***************************************************************************)
(* Model of ConversationManager (conversation_utils.py) and of the request *)
(* handlers of llm_bot.py that drive it.                                   *)
(*                                                                         *)
(* Python objects are references.  A ConversationEntry lives in the heap   *)
(* `entries` under an entry id and `store` maps a user id to the id of its *)
(* entry.  A chat turn (a dict) is a record; the list get_history returns  *)
(* remembers for each element which stored dict it is.  Strings are        *)
(* sequences of characters; the tag "<|role|>" is one non-whitespace       *)
(* symbol.                                                                 *)
(***************************************************************************)
EXTENDS Integers, Sequences, FiniteSets, TLC

\* ---------------------------------------------------------------- bounds
MaxTime == 2        \* the clock takes the values 0..MaxTime
MaxTurns == 3       \* Spec: user/assistant turns stored before an add is called
MaxStoreTurns == 1  \* SpecStore: the same, over the entries of both users
MaxAliasTurns == 1  \* SpecAlias: the same
MaxList == 3        \* SpecAlias: length of the list a caller grows
MaxExchanges == 3   \* SpecExchange: exchanges appended to one entry
MaxRequests == 3    \* SpecConc: requests the handler threads serve in all
MaxTokenizerTurns == 3  \* SpecTokenizer: turns stored before an add is called

\* ---------------------------------------------------------------- inputs
Users == {1, 2}
Contents == {<<"a">>, <<"a", " ", "b">>}
PairsChoices == {0, 1}
TokensChoices == {0, 5, 7}
TtlChoices == {0, 1}
Flags == {TRUE, FALSE}

\* config.system_prompt, one word
SystemPrompt == <<"s">>

VARIABLES
    cfg,        \* BotConfig: history_max_pairs, history_max_tokens, history_ttl_seconds
    now,        \* the value time.time() returned last
    store,      \* ConversationManager._store: user id -> entry id
    entries,    \* heap of ConversationEntry objects: entry id -> [history, updated_at]
    last,       \* the call that returned last, as its caller saw it
    returned,   \* the list get_history returned last, held by its caller
    prompt,     \* the string build_prompt returned last
    appended,   \* history variable: entry id -> the turns appended to the entry
    threads     \* request handlers in flight: thread -> its locals and position

vars == <<cfg, now, store, entries, last, returned, prompt, appended, threads>>

\* ------------------------------------------------------------ pure helpers
IsSpace(ch) == ch \in {" ", "\n"}

TagOf(role) == "<|" \o role \o "|>"

\* one iteration of the rendering loop: an unknown role appends nothing
RenderTurn(msg) ==
    IF msg.role \in {"system", "user", "assistant"}
    THEN <<TagOf(msg.role), "\n">> \o msg.content \o <<"\n">>
    ELSE <<>>

RECURSIVE JoinParts(_)
JoinParts(history) ==
    IF history = <<>> THEN <<>>
    ELSE RenderTurn(Head(history)) \o JoinParts(Tail(history))

\* ConversationManager.build_prompt_from_history, tokenizer None
build_prompt_from_history(history, add_generation_prompt) ==
    JoinParts(history)
        \o (IF add_generation_prompt THEN <<"<|assistant|>", "\n">> ELSE <<>>)

\* ConversationManager._count_tokens, tokenizer None: len(prompt.split())
count_tokens(text) ==
    IF text = <<>> THEN 0
    ELSE Cardinality({i \in 1..Len(text) :
            /\ ~IsSpace(text[i])
            /\ (i = 1 \/ IsSpace(text[i - 1]))})

\* mutant of DelOldestPair: del history[1:2], one turn
DelOldestPair_One(history) == SubSeq(history, 1, 1) \o SubSeq(history, 3, Len(history))

\* del history[1:3]
DelOldestPair(history) == SubSeq(history, 1, 1) \o SubSeq(history, 4, Len(history))

\* mutant of KeepLast: the slice without the system turn in front
KeepLast_NoSystem(history, max_messages) ==
    SubSeq(history, Len(history) - (max_messages - 1) + 1, Len(history))

\* mutant of KeepLast: history[-max_messages:], one turn too many
KeepLast_OneMore(history, max_messages) ==
    <<history[1]>> \o SubSeq(history, Len(history) - max_messages + 1, Len(history))

\* history[:] = [system] + history[-(max_messages - 1):]
KeepLast(history, max_messages) ==
    <<history[1]>> \o SubSeq(history, Len(history) - (max_messages - 1) + 1, Len(history))

PairPass(history) ==
    IF cfg.history_max_pairs > 0 /\ Len(history) > 1 + cfg.history_max_pairs * 2
    THEN KeepLast(history, 1 + cfg.history_max_pairs * 2)
    ELSE history

\* mutant of TokenPass: "if len(history) > 3", the loop gives up one pair early
RECURSIVE TokenPass_StopsEarly(_)
TokenPass_StopsEarly(history) ==
    IF Len(history) > 1
    THEN IF count_tokens(build_prompt_from_history(history, TRUE)) <= cfg.history_max_tokens
         THEN history
         ELSE IF Len(history) > 3 THEN TokenPass_StopsEarly(DelOldestPair(history))
              ELSE history
    ELSE history

RECURSIVE TokenPass(_)
TokenPass(history) ==
    IF Len(history) > 1
    THEN IF count_tokens(build_prompt_from_history(history, TRUE)) <= cfg.history_max_tokens
         THEN history
         ELSE IF Len(history) > 2 THEN TokenPass(DelOldestPair(history)) ELSE history
    ELSE history

\* mutant of truncate_history: "if max_tokens < 0", a budget of 0 is a limit
truncate_history_ZeroIsLimit(history) ==
    IF cfg.history_max_tokens < 0 THEN PairPass(history)
    ELSE TokenPass(PairPass(history))

\* ConversationManager._truncate_history
truncate_history(history) ==
    IF cfg.history_max_tokens <= 0 THEN PairPass(history)
    ELSE TokenPass(PairPass(history))

\* the roles of the pairs the token loop deletes from history, oldest first
RECURSIVE TokenPassDeleted(_)
TokenPassDeleted(history) ==
    IF /\ Len(history) > 1
       /\ count_tokens(build_prompt_from_history(history, TRUE)) > cfg.history_max_tokens
       /\ Len(history) > 2
    THEN <<<<history[2].role, history[3].role>>>>
            \o TokenPassDeleted(DelOldestPair(history))
    ELSE <<>>

\* the pairs _truncate_history deletes in its token loop
truncate_deleted(history) ==
    IF cfg.history_max_tokens <= 0 THEN <<>>
    ELSE TokenPassDeleted(PairPass(history))

\* ConversationManager.build_prompt lines 104-116, tokenizer None
RECURSIVE PromptParts(_)
PromptParts(history) ==
    IF history = <<>> THEN <<>>
    ELSE LET msg == Head(history) IN
         (IF msg.role = "system" THEN <<"<|system|>", "\n">> \o msg.content \o <<"\n">>
          ELSE IF msg.role = "user" THEN <<"<|user|>", "\n">> \o msg.content \o <<"\n">>
          ELSE IF msg.role = "assistant" THEN <<"<|assistant|>", "\n">> \o msg.content \o <<"\n">>
          ELSE <<>>)
         \o PromptParts(Tail(history))

\* mutant of build_prompt_text: the generation cue is never appended
build_prompt_text_NoCue(history, add_generation_prompt) ==
    PromptParts(history)

build_prompt_text(history, add_generation_prompt) ==
    IF add_generation_prompt
    THEN PromptParts(history) \o <<"<|assistant|>", "\n">>
    ELSE PromptParts(history)

\* ------------------------------------------------------------ the heap
Threads == {"t1", "t2"}

Range(f) == {f[x] : x \in DOMAIN f}

SystemTurn == [role |-> "system", content |-> SystemPrompt]

\* list(history): a new list whose element i is the dict stored at index i;
\* `src` is that index, the identity the copy shares with the stored list
CopyList(history) ==
    [i \in 1..Len(history) |->
        [src |-> i, role |-> history[i].role, content |-> history[i].content]]

\* a turn without the identity of its dict
Val(turn) == [role |-> turn.role, content |-> turn.content]

Vals(list) == [i \in 1..Len(list) |-> Val(list[i])]

FreshEntryId(ents) == CHOOSE i \in 0..Cardinality(DOMAIN ents) : i \notin DOMAIN ents

NoEntry == -1

\* entry objects a handler still holds in a local
HeldEntries(th) == {th[t].entry : t \in Threads} \ {NoEntry}

\* reference counting: an entry nothing refers to is freed
Collect(M, th) ==
    [store |-> M.store,
     entries |-> [e \in (Range(M.store) \cup HeldEntries(th)) \cap DOMAIN M.entries
                    |-> M.entries[e]]]

Mem == [store |-> store, entries |-> entries]

\* mutant of DelKeys: the key stays in the store
DelKeys_Keeps(M, ks) == M

\* del self._store[user_id] for every user of ks
DelKeys(M, ks) ==
    [store |-> [k \in DOMAIN M.store \ ks |-> M.store[k]], entries |-> M.entries]

\* mutant of Inactive: ">=" for ">", an entry exactly TTL old is swept
Inactive_AtTtl(M, current) ==
    {u \in DOMAIN M.store :
        current - M.entries[M.store[u]].updated_at >= cfg.history_ttl_seconds}

Inactive(M, current) ==
    {u \in DOMAIN M.store :
        current - M.entries[M.store[u]].updated_at > cfg.history_ttl_seconds}

\* ConversationManager.purge_inactive, run without interruption
purge_inactive(M, current) ==
    IF cfg.history_ttl_seconds <= 0 THEN M
    ELSE DelKeys(M, Inactive(M, current))

\* ConversationEntry(history=[system turn], updated_at=t)
NewEntry(t) == [history |-> <<SystemTurn>>, updated_at |-> t]

\* mutant of ensure_entry: an entry that exists is touched (updated_at = now)
ensure_entry_Touches(M, user_id, t) ==
    IF user_id \in DOMAIN M.store
    THEN [store |-> M.store,
          entries |-> [M.entries EXCEPT ![M.store[user_id]].updated_at = t]]
    ELSE LET e == FreshEntryId(M.entries) IN
         [store |-> [k \in DOMAIN M.store \cup {user_id} |->
                        IF k = user_id THEN e ELSE M.store[k]],
          entries |-> [x \in DOMAIN M.entries \cup {e} |->
                        IF x = e THEN NewEntry(t) ELSE M.entries[x]]]

\* ConversationManager._ensure_entry, run without interruption
ensure_entry(M, user_id, t) ==
    IF user_id \in DOMAIN M.store THEN M
    ELSE LET e == FreshEntryId(M.entries) IN
         [store |-> [k \in DOMAIN M.store \cup {user_id} |->
                        IF k = user_id THEN e ELSE M.store[k]],
          entries |-> [x \in DOMAIN M.entries \cup {e} |->
                        IF x = e THEN NewEntry(t) ELSE M.entries[x]]]

\* mutant of AppendTurn: updated_at is set on every entry of the store
AppendTurn_TouchesAll(M, user_id, role, content, t) ==
    LET e == M.store[user_id]
        turn == [role |-> role, content |-> content]
        h == Append(M.entries[e].history, turn)
    IN [store |-> M.store,
        entries |-> [x \in DOMAIN M.entries |->
                        IF x = e THEN [history |-> truncate_history(h), updated_at |-> t]
                        ELSE [M.entries[x] EXCEPT !.updated_at = t]]]

\* entry.history.append(turn); entry.updated_at = t; self._truncate_history(entry.history)
AppendTurn(M, user_id, role, content, t) ==
    LET e == M.store[user_id]
        turn == [role |-> role, content |-> content]
        h == Append(M.entries[e].history, turn)
    IN [store |-> M.store,
        entries |-> [M.entries EXCEPT ![e] =
                        [history |-> truncate_history(h), updated_at |-> t]]]

HistoryOf(user_id) == entries[store[user_id]].history

StoredTurns == LET RECURSIVE Sum(_)
                   Sum(S) == IF S = {} THEN 0
                             ELSE LET e == CHOOSE x \in S : TRUE
                                  IN (Len(entries[e].history) - 1) + Sum(S \ {e})
               IN Sum(DOMAIN entries)

\* what the caller saw of a call: `current` is the clock value its sweep
\* read (-1: no sweep ran), `swept` the number of entries the sweep removed,
\* `dropped` the number of turns the call removed, `created` whether it
\* inserted the entry, `after_clear` how the call before it, if that was
\* clear_history of the same user, found the entry; an add call also has
\* `content`, the text it was given, and `deleted`, the roles of the pairs
\* its token loop deleted
Called(op, user_id, current, swept, dropped, created) ==
    [op |-> op, user |-> user_id, current |-> current, swept |-> swept,
     dropped |-> dropped, created |-> created, content |-> <<>>, deleted |-> <<>>,
     after_clear |-> IF last.op = "clear_history" /\ last.user = user_id
                     THEN (IF last.dropped > 0 THEN "present" ELSE "absent")
                     ELSE ""]

\* the clock value purge_inactive works with: it reads the clock only when
\* the TTL is positive
SweepTime(t1) == IF cfg.history_ttl_seconds > 0 THEN t1 ELSE -1

\* -------------------------------------------------- calls, one at a time
\* Every self._now() returns the last value or a later one, so time passes
\* inside a call and between calls; `now` is the value read last.
\*
\* add_user_message(user_id, content); t1, t2 are the clock values read by
\* purge_inactive and by "entry.updated_at = self._now()" (the value
\* _ensure_entry reads in between is overwritten by t2)
AddUserMessageCore(user_id, content) ==
    /\ \E t1 \in now..MaxTime : \E t2 \in t1..MaxTime :
        /\ cfg.history_ttl_seconds <= 0 => t1 = now
        /\ LET M1 == purge_inactive(Mem, t1)
               M2 == ensure_entry(M1, user_id, t2)
               M3 == Collect(AppendTurn(M2, user_id, "user", content, t2), threads)
           IN /\ store' = M3.store
              /\ entries' = M3.entries
              /\ last' = [Called("add_user_message", user_id, SweepTime(t1),
                                Cardinality(DOMAIN store \ DOMAIN M1.store),
                                Len(M2.entries[M2.store[user_id]].history) + 1
                                    - Len(M3.entries[M3.store[user_id]].history),
                                user_id \notin DOMAIN M1.store)
                           EXCEPT !.content = content,
                                  !.deleted = truncate_deleted(
                                      Append(M2.entries[M2.store[user_id]].history,
                                             [role |-> "user", content |-> content]))]
        /\ now' = t2
    /\ returned' = <<>>
    /\ prompt' = <<>>
    /\ UNCHANGED <<cfg, threads>>

AddAssistantMessageCore(user_id, content) ==
    /\ \E t2 \in now..MaxTime :
        /\ LET M2 == ensure_entry(Mem, user_id, t2)
               M3 == Collect(AppendTurn(M2, user_id, "assistant", content, t2), threads)
           IN /\ store' = M3.store
              /\ entries' = M3.entries
              /\ last' = [Called("add_assistant_message", user_id, -1, 0,
                                Len(M2.entries[M2.store[user_id]].history) + 1
                                    - Len(M3.entries[M3.store[user_id]].history),
                                user_id \notin DOMAIN store)
                           EXCEPT !.content = content,
                                  !.deleted = truncate_deleted(
                                      Append(M2.entries[M2.store[user_id]].history,
                                             [role |-> "assistant", content |-> content]))]
        /\ now' = t2
    /\ returned' = <<>>
    /\ prompt' = <<>>
    /\ UNCHANGED <<cfg, threads>>

AddUserMessage(user_id, content) ==
    AddUserMessageCore(user_id, content) /\ UNCHANGED appended

AddAssistantMessage(user_id, content) ==
    AddAssistantMessageCore(user_id, content) /\ UNCHANGED appended

\* mutant of EnsureOnly: the readers run the sweep first
EnsureOnly_Sweeps(user_id) ==
    \E t \in now..MaxTime :
        /\ LET M == Collect(ensure_entry(purge_inactive(Mem, t), user_id, t), threads)
           IN /\ store' = M.store
              /\ entries' = M.entries
        /\ now' = t

\* entry = self._ensure_entry(user_id) of the two readers: the clock is
\* read only when the entry has to be created
EnsureOnly(user_id) ==
    \E t \in now..MaxTime :
        /\ user_id \in DOMAIN store => t = now
        /\ LET M == ensure_entry(Mem, user_id, t)
           IN /\ store' = M.store
              /\ entries' = M.entries
        /\ now' = t

\* get_history(user_id): list(entry.history), a new list of the same dicts
GetHistory(user_id) ==
    /\ EnsureOnly(user_id)
    /\ returned' = CopyList(entries'[store'[user_id]].history)
    /\ prompt' = <<>>
    /\ last' = Called("get_history", user_id, -1, 0, 0, user_id \notin DOMAIN store)
    /\ UNCHANGED <<cfg, appended, threads>>

BuildPrompt(user_id, add_generation_prompt) ==
    /\ EnsureOnly(user_id)
    /\ prompt' = build_prompt_text(entries'[store'[user_id]].history, add_generation_prompt)
    /\ returned' = <<>>
    /\ last' = Called("build_prompt", user_id, -1, 0, 0, user_id \notin DOMAIN store)
    /\ UNCHANGED <<cfg, appended, threads>>

ClearHistory(user_id) ==
    /\ LET M == Collect(IF user_id \in DOMAIN store THEN DelKeys(Mem, {user_id}) ELSE Mem,
                        threads)
       IN /\ store' = M.store
          /\ entries' = M.entries
    /\ returned' = <<>>
    /\ prompt' = <<>>
    /\ last' = Called("clear_history", user_id, -1, 0,
                      IF user_id \in DOMAIN store THEN Len(HistoryOf(user_id)) ELSE 0,
                      FALSE)
    /\ UNCHANGED <<cfg, now, appended, threads>>

PurgeInactive ==
    /\ \E t1 \in now..MaxTime :
        /\ cfg.history_ttl_seconds <= 0 => t1 = now
        /\ LET M == Collect(purge_inactive(Mem, t1), threads)
           IN /\ store' = M.store
              /\ entries' = M.entries
        /\ now' = t1
        /\ last' = Called("purge_inactive", 0, SweepTime(t1),
                          Cardinality(DOMAIN store \ DOMAIN store'), 0, FALSE)
    /\ returned' = <<>>
    /\ prompt' = <<>>
    /\ UNCHANGED <<cfg, appended, threads>>

\* a pool thread (or the event loop) between two requests
IdleThread ==
    [pc |-> "idle", handler |-> "", phase |-> "", user |-> 0, content |-> <<>>,
     role |-> "", entry |-> NoEntry, messages |-> <<>>, tmp |-> <<>>,
     current |-> -1, size |-> -1, visited |-> {}, inactive |-> <<>>,
     err |-> "", calls |-> <<>>, served |-> 0,
     before |-> <<>>, start |-> <<>>, rounds |-> 0, count |-> -1]

\* ConversationManager.__init__: an empty store, the limits among P, K, T
InitWith(P, K, T) ==
    /\ cfg \in [history_max_pairs : P, history_max_tokens : K, history_ttl_seconds : T]
    /\ now = 0
    /\ store = <<>>
    /\ entries = <<>>
    /\ last = [op |-> "init", user |-> 0, current |-> -1, swept |-> 0, dropped |-> 0,
               created |-> FALSE, content |-> <<>>, deleted |-> <<>>,
               after_clear |-> ""]
    /\ returned = <<>>
    /\ prompt = <<>>
    /\ appended = <<>>
    /\ threads = [t \in Threads |-> IdleThread]

Init == InitWith(PairsChoices, TokensChoices, TtlChoices)

\* the calls the transport layer can make for the users U with the texts C,
\* adds only while at most `cap` user/assistant turns are stored
Calls(U, C, cap) ==
    \/ \E u \in U, c \in C : StoredTurns <= cap /\ AddUserMessage(u, c)
    \/ \E u \in U, c \in C : StoredTurns <= cap /\ AddAssistantMessage(u, c)
    \/ \E u \in U : GetHistory(u)
    \/ \E u \in U, f \in Flags : BuildPrompt(u, f)
    \/ \E u \in U : ClearHistory(u)
    \/ PurgeInactive

\* one user, every limit
Next == Calls({1}, Contents, MaxTurns)

Spec == Init /\ [][Next]_vars

\* two users, short histories: the store, its clock and its sweep
NextStore == Calls(Users, {<<"a">>}, MaxStoreTurns)

InitStore == InitWith({1}, {0, 5}, TtlChoices)

SpecStore == InitStore /\ [][NextStore]_vars

\* one user, limits that are negative, zero and positive
NextLimits == Calls({1}, Contents, MaxTurns)

InitLimits == InitWith({-1, 0, 1}, {-1, 0, 5}, {0})

SpecLimits == InitLimits /\ [][NextLimits]_vars

\* ------------------------------------------- the caller of get_history
\* The caller holds the list get_history(last.user) returned and no call
\* has been made since.
HoldsList == last.op \in {"get_history", "caller_mutation"} /\ returned # <<>>

CallerDid == Called("caller_mutation", last.user, -1, 0, 0, FALSE)

\* messages.append(turn): a dict of the caller's own (src 0) goes on its list
CallerAppends(role, content) ==
    /\ HoldsList
    /\ Len(returned) < MaxList
    /\ returned' = Append(returned, [src |-> 0, role |-> role, content |-> content])
    /\ last' = CallerDid
    /\ UNCHANGED <<cfg, now, store, entries, prompt, appended, threads>>

\* del messages[i]
CallerRemoves(i) ==
    /\ HoldsList
    /\ i \in 1..Len(returned)
    /\ returned' = SubSeq(returned, 1, i - 1) \o SubSeq(returned, i + 1, Len(returned))
    /\ last' = CallerDid
    /\ UNCHANGED <<cfg, now, store, entries, prompt, appended, threads>>

\* messages[i][key] = value: the dict at index i is written; when it is a
\* dict of the stored history (src > 0) the stored list shows the write too
CallerWrites(i, key, value) ==
    /\ HoldsList
    /\ i \in 1..Len(returned)
    /\ LET src == returned[i].src
           Written(turn) == IF key = "role" THEN [turn EXCEPT !.role = value]
                            ELSE [turn EXCEPT !.content = value]
       IN /\ returned' = [j \in 1..Len(returned) |->
                            IF j = i \/ (src > 0 /\ returned[j].src = src)
                            THEN Written(returned[j]) ELSE returned[j]]
          /\ entries' = IF src > 0
                        THEN [entries EXCEPT ![store[last.user]].history[src] = Written(@)]
                        ELSE entries
    /\ last' = CallerDid
    /\ UNCHANGED <<cfg, now, store, prompt, appended, threads>>

NextAlias ==
    \/ Calls({1}, {<<"a">>}, MaxAliasTurns)
    \/ \E c \in {<<"x">>} : CallerAppends("user", c)
    \/ \E i \in 1..MaxList : CallerRemoves(i)
    \/ \E i \in 1..MaxList : CallerWrites(i, "content", <<"x">>)
    \/ \E i \in 1..MaxList : CallerWrites(i, "role", "tool")

InitAlias == InitWith({1}, {0, 5}, {0})

SpecAlias == InitAlias /\ [][NextAlias]_vars

\* ---------------------------------------- exchanges in strict alternation
\* `appended` records, per entry, the turns appended since it was created.
Logged(user_id, turn) ==
    appended' = [e \in DOMAIN entries' |->
                    IF e = store'[user_id]
                    THEN (IF last'.created THEN <<turn>> ELSE Append(appended[e], turn))
                    ELSE appended[e]]

LogOf(user_id) == IF user_id \in DOMAIN store THEN appended[store[user_id]] ELSE <<>>

\* the user's message of the next exchange
ExchangeUser(user_id, content) ==
    /\ Len(LogOf(user_id)) % 2 = 0
    /\ Len(LogOf(user_id)) < 2 * MaxExchanges
    /\ AddUserMessageCore(user_id, content)
    /\ Logged(user_id, [role |-> "user", content |-> content])

\* the reply that completes the exchange
ExchangeAssistant(user_id, content) ==
    /\ Len(LogOf(user_id)) % 2 = 1
    /\ AddAssistantMessageCore(user_id, content)
    /\ Logged(user_id, [role |-> "assistant", content |-> content])

NextExchange ==
    \/ \E c \in Contents : ExchangeUser(1, c)
    \/ \E c \in Contents : ExchangeAssistant(1, c)
    \/ PurgeInactive

InitExchange == InitWith({1, 2}, {0, 5, 16}, TtlChoices)

SpecExchange == InitExchange /\ [][NextExchange]_vars

\* ------------------------------------------------ handlers in threads
\* handle_message runs generate_response on the default executor
\* (loop.run_in_executor) and clear_command runs clear_history on the event
\* loop, so calls of ConversationManager run in several threads with no
\* lock.  A step is a stretch of one call between two points where the
\* interpreter can switch threads: one operation on the dict or on a list
\* (atomic under the interpreter lock), with the reads next to it.
\* Rendering and counting the history (tokens_check) is taken as one read.
Local(t) == threads[t]

\* the other variables a thread step leaves alone
Unobserved == UNCHANGED <<cfg, last, returned, prompt, appended>>

\* the step of thread t to the locals r, the heap M and the clock value c
Steps(t, r, M, c) ==
    LET th == [threads EXCEPT ![t] = r]
        G == Collect(M, th)
    IN /\ threads' = th
       /\ store' = G.store
       /\ entries' = G.entries
       /\ now' = c
       /\ Unobserved

Goes(t, r) == Steps(t, r, Mem, now)

\* the locals a call that returned leaves behind
Returned(r, pc) ==
    [r EXCEPT !.pc = pc, !.entry = NoEntry, !.tmp = <<>>, !.current = -1,
              !.size = -1, !.visited = {}, !.inactive = <<>>]

Raised(r, err) == [Returned(r, "failed") EXCEPT !.err = err, !.messages = <<>>]

Served == LET RECURSIVE Sum(_)
              Sum(S) == IF S = {} THEN 0
                        ELSE LET t == CHOOSE x \in S : TRUE
                             IN threads[t].served + Sum(S \ {t})
          IN Sum(Threads)

\* a thread takes the next request when it has finished the one before
CanStart(t) == Local(t).pc \in {"idle", "done", "failed"} /\ Served < MaxRequests

\* handle_message: generate_response(user_id, text) starts with add_user_message
StartMessage(t, user_id, content) ==
    /\ CanStart(t)
    /\ Goes(t, [IdleThread EXCEPT !.pc = "sweep_clock", !.handler = "message",
                   !.phase = "add_user_message", !.user = user_id,
                   !.content = content, !.role = "user",
                   !.served = Local(t).served + 1])

\* clear_command: conversation_manager.clear_history(user_id), called on
\* the event loop with no await inside: two of them never overlap
StartClear(t, user_id) ==
    /\ CanStart(t)
    /\ \A x \in Threads : threads[x].pc \notin {"clear_check", "clear_del"}
    /\ Goes(t, [IdleThread EXCEPT !.pc = "clear_check", !.handler = "clear",
                   !.phase = "clear_history", !.user = user_id,
                   !.served = Local(t).served + 1])

\* purge_inactive: "if ttl <= 0: return", else current = self._now()
SweepClock(t) ==
    /\ Local(t).pc = "sweep_clock"
    /\ IF cfg.history_ttl_seconds <= 0
       THEN Goes(t, [Local(t) EXCEPT !.pc = "ensure_get"])
       ELSE \E c \in now..MaxTime :
                Steps(t, [Local(t) EXCEPT !.pc = "sweep_scan", !.current = c], Mem, c)

\* one round of "for user_id, entry in self._store.items() if ...": the
\* first round makes the iterator, which remembers the size of the dict;
\* a round that finds another size raises RuntimeError
SweepScan(t) ==
    /\ Local(t).pc = "sweep_scan"
    /\ LET r == Local(t)
           size == IF r.size = -1 THEN Cardinality(DOMAIN store) ELSE r.size
           todo == DOMAIN store \ r.visited
       IN IF Cardinality(DOMAIN store) # size
          THEN Goes(t, Raised(r, "RuntimeError"))
          ELSE IF todo = {}
          THEN Goes(t, [r EXCEPT !.pc = "sweep_del", !.size = -1, !.visited = {}])
          ELSE \E k \in todo :
                  Goes(t, [r EXCEPT
                      !.size = size,
                      !.visited = @ \cup {k},
                      !.inactive =
                          IF r.current - entries[store[k]].updated_at
                                > cfg.history_ttl_seconds
                          THEN Append(@, k) ELSE @])

\* one round of "for user_id in inactive: del self._store[user_id]"
SweepDel(t) ==
    /\ Local(t).pc = "sweep_del"
    /\ LET r == Local(t) IN
       IF r.inactive = <<>>
       THEN Goes(t, [r EXCEPT !.pc = "ensure_get"])
       ELSE IF Head(r.inactive) \notin DOMAIN store
       THEN Goes(t, Raised(r, "KeyError"))
       ELSE Steps(t, [r EXCEPT !.inactive = Tail(@)],
                  DelKeys(Mem, {Head(r.inactive)}), now)

\* _ensure_entry: entry = self._store.get(user_id)
EnsureGet(t) ==
    /\ Local(t).pc = "ensure_get"
    /\ LET r == Local(t) IN
       IF r.user \in DOMAIN store
       THEN Goes(t, [r EXCEPT !.entry = store[r.user],
                       !.pc = IF r.phase = "get_history" THEN "copy" ELSE "append"])
       ELSE Goes(t, [r EXCEPT !.pc = "ensure_new"])

\* _ensure_entry, entry is None: the new entry is put under the key,
\* whatever another thread has put there meanwhile
EnsureNew(t) ==
    /\ Local(t).pc = "ensure_new"
    /\ \E c \in now..MaxTime :
        LET r == Local(t)
            e == FreshEntryId(entries)
            M == [store |-> [k \in DOMAIN store \cup {r.user} |->
                                IF k = r.user THEN e ELSE store[k]],
                  entries |-> [x \in DOMAIN entries \cup {e} |->
                                IF x = e THEN NewEntry(c) ELSE entries[x]]]
        IN Steps(t, [r EXCEPT !.entry = e,
                        !.pc = IF r.phase = "get_history" THEN "copy" ELSE "append"],
                 M, c)

\* entry.history.append({"role": role, "content": content})
AppendStep(t) ==
    /\ Local(t).pc = "append"
    /\ LET r == Local(t)
           turn == [role |-> r.role, content |-> r.content]
       IN Steps(t, [r EXCEPT !.pc = "touch"],
                [Mem EXCEPT !.entries[r.entry].history = Append(@, turn)], now)

\* entry.updated_at = self._now()
TouchStep(t) ==
    /\ Local(t).pc = "touch"
    /\ \E c \in now..MaxTime :
        Steps(t, [Local(t) EXCEPT !.pc = "pairs_check"],
              [Mem EXCEPT !.entries[Local(t).entry].updated_at = c], c)

\* _truncate_history: "if max_pairs > 0" and "if len(history) > max_messages"
PairsCheck(t) ==
    /\ Local(t).pc = "pairs_check"
    /\ LET r == Local(t)
           h == entries[r.entry].history
       IN IF cfg.history_max_pairs > 0 /\ Len(h) > 1 + cfg.history_max_pairs * 2
          THEN Goes(t, [r EXCEPT !.pc = "pairs_read"])
          ELSE Goes(t, [r EXCEPT !.pc = "tokens_check"])

\* the right-hand side [system] + history[-(max_messages - 1):]; a slice
\* that starts before the list starts at its first element
PairsRead(t) ==
    /\ Local(t).pc = "pairs_read"
    /\ LET r == Local(t)
           h == entries[r.entry].history
           keep == cfg.history_max_pairs * 2
           from == IF Len(h) - keep + 1 < 1 THEN 1 ELSE Len(h) - keep + 1
       IN Goes(t, [r EXCEPT !.pc = "pairs_write",
                            !.tmp = <<h[1]>> \o SubSeq(h, from, Len(h))])

\* history[:] = the list built before
PairsWrite(t) ==
    /\ Local(t).pc = "pairs_write"
    /\ LET r == Local(t) IN
       Steps(t, [r EXCEPT !.pc = "tokens_check", !.tmp = <<>>],
             [Mem EXCEPT !.entries[r.entry].history = r.tmp], now)

\* where a thread goes when its add call returns
AfterAdd(r) ==
    LET done == [r EXCEPT !.calls = Append(@, [role |-> r.role, content |-> r.content])]
    IN IF r.phase = "add_user_message"
       THEN [Returned(done, "ensure_get") EXCEPT !.phase = "get_history"]
       ELSE Returned(done, "done")

\* one round of the token loop up to its decision
TokensCheck(t) ==
    /\ Local(t).pc = "tokens_check"
    /\ LET r == Local(t)
           h == entries[r.entry].history
       IN IF /\ cfg.history_max_tokens > 0
             /\ Len(h) > 1
             /\ count_tokens(build_prompt_from_history(h, TRUE)) > cfg.history_max_tokens
             /\ Len(h) > 2
          THEN Goes(t, [r EXCEPT !.pc = "tokens_del"])
          ELSE Goes(t, AfterAdd(r))

\* del history[1:3]
TokensDel(t) ==
    /\ Local(t).pc = "tokens_del"
    /\ LET r == Local(t) IN
       Steps(t, [r EXCEPT !.pc = "tokens_check"],
             [Mem EXCEPT !.entries[r.entry].history = DelOldestPair(@)], now)

\* generate_response: messages = conversation_manager.get_history(user_id)
CopyStep(t) ==
    /\ Local(t).pc = "copy"
    /\ LET r == Local(t) IN
       Goes(t, [Returned(r, "infer") EXCEPT
                   !.messages = Vals(entries[r.entry].history)])

\* CLIENT.chat.completions.create(...): a reply, which is added, or an
\* error or an empty reply, which ends the handler
Infer(t) ==
    /\ Local(t).pc = "infer"
    /\ \/ \E c \in {<<"a">>} :
            Goes(t, [Local(t) EXCEPT !.pc = "ensure_get", !.phase = "add_assistant_message",
                         !.role = "assistant", !.content = c, !.messages = <<>>])
       \/ Goes(t, [Local(t) EXCEPT !.pc = "done", !.messages = <<>>])

\* clear_history: "if user_id in self._store"
ClearCheck(t) ==
    /\ Local(t).pc = "clear_check"
    /\ IF Local(t).user \in DOMAIN store
       THEN Goes(t, [Local(t) EXCEPT !.pc = "clear_del"])
       ELSE Goes(t, [Local(t) EXCEPT !.pc = "done"])

\* clear_history: "del self._store[user_id]"
ClearDel(t) ==
    /\ Local(t).pc = "clear_del"
    /\ LET r == Local(t) IN
       IF r.user \notin DOMAIN store
       THEN Goes(t, Raised(r, "KeyError"))
       ELSE Steps(t, [r EXCEPT !.pc = "done"], DelKeys(Mem, {r.user}), now)

NextConc ==
    \E t \in Threads :
        \/ \E u \in Users : StartMessage(t, u, <<"a">>)
        \/ \E u \in Users : StartClear(t, u)
        \/ SweepClock(t)
        \/ SweepScan(t)
        \/ SweepDel(t)
        \/ EnsureGet(t)
        \/ EnsureNew(t)
        \/ AppendStep(t)
        \/ TouchStep(t)
        \/ PairsCheck(t)
        \/ PairsRead(t)
        \/ PairsWrite(t)
        \/ TokensCheck(t)
        \/ TokensDel(t)
        \/ CopyStep(t)
        \/ Infer(t)
        \/ ClearCheck(t)
        \/ ClearDel(t)

InitConc == InitWith({1}, {0, 5}, {1})

SpecConc == InitConc /\ [][NextConc]_vars

\* ------------------------------------------- truncation with a tokenizer
\* ConversationManager(tokenizer=T, config): build_prompt_from_history
\* returns T.apply_chat_template(...) and _count_tokens returns the number
\* of ids T(prompt) gives.  T is outside the program: each of the two calls
\* can raise, and the count is whatever T answers.  Within one truncation
\* the loop never measures the same history twice (every round but the last
\* deletes two turns), so an answer chosen per round is a function of the
\* history.  One thread makes the calls, one at a time; `last` is the call
\* made last, `dropped` filled in when it returns or raises.
\*
\* Locals of the call: `before` is the history when _truncate_history is
\* entered, `start` the history when the token loop is entered, `rounds`
\* the deletions the loop has made, `count` the answer of T in the last
\* round (for a round in which T raised: the answer T gives when it does
\* not raise).
TokenCounts == {3, 9}

TokenizerErrors == {"template_error", "encoding_error"}

\* the call of thread t returns or raises
TkFinish(t, r, pc) ==
    /\ threads' = [threads EXCEPT ![t] = [r EXCEPT !.pc = pc, !.entry = NoEntry]]
    /\ last' = [last EXCEPT !.dropped = Len(r.before) - Len(entries[r.entry].history)]
    /\ UNCHANGED <<cfg, now, store, entries, returned, prompt, appended>>

\* add_user_message / add_assistant_message down to the call of
\* _truncate_history: sweep (add_user_message only), _ensure_entry, append,
\* updated_at
TkAdd(t, op, user_id, content) ==
    /\ Local(t).pc \in {"idle", "done", "failed"}
    /\ StoredTurns <= MaxTokenizerTurns
    /\ \E t1 \in now..MaxTime : \E t2 \in t1..MaxTime :
        /\ (cfg.history_ttl_seconds <= 0 \/ op = "add_assistant_message") => t1 = now
        /\ LET role == IF op = "add_user_message" THEN "user" ELSE "assistant"
               M1 == IF op = "add_user_message" THEN purge_inactive(Mem, t1) ELSE Mem
               M2 == ensure_entry(M1, user_id, t2)
               e == M2.store[user_id]
               h == Append(M2.entries[e].history, [role |-> role, content |-> content])
               r == [IdleThread EXCEPT !.pc = "tk_pairs", !.handler = "add", !.phase = op,
                                       !.user = user_id, !.role = role, !.content = content,
                                       !.entry = e, !.before = h]
               M3 == Collect([store |-> M2.store,
                              entries |-> [M2.entries EXCEPT
                                             ![e] = [history |-> h, updated_at |-> t2]]],
                             [threads EXCEPT ![t] = r])
           IN /\ threads' = [threads EXCEPT ![t] = r]
              /\ store' = M3.store
              /\ entries' = M3.entries
              /\ last' = [Called(op, user_id,
                                 IF op = "add_user_message" THEN SweepTime(t1) ELSE -1,
                                 Cardinality(DOMAIN store \ DOMAIN M1.store), 0,
                                 user_id \notin DOMAIN M1.store)
                           EXCEPT !.content = content]
        /\ now' = t2
    /\ returned' = <<>>
    /\ prompt' = <<>>
    /\ UNCHANGED <<cfg, appended>>

\* _truncate_history lines 129-141: the pair-count slice, one assignment,
\* then "if max_tokens <= 0: return"
TkPairs(t) ==
    /\ Local(t).pc = "tk_pairs"
    /\ LET r == Local(t)
           h == PairPass(entries[r.entry].history)
       IN IF cfg.history_max_tokens <= 0
          THEN /\ threads' = [threads EXCEPT ![t] = [r EXCEPT !.pc = "done", !.entry = NoEntry]]
               /\ entries' = [entries EXCEPT ![r.entry].history = h]
               /\ last' = [last EXCEPT !.dropped = Len(r.before) - Len(h)]
               /\ UNCHANGED <<cfg, now, store, returned, prompt, appended>>
          ELSE /\ threads' = [threads EXCEPT ![t] = [r EXCEPT !.pc = "tk_loop", !.start = h]]
               /\ entries' = [entries EXCEPT ![r.entry].history = h]
               /\ UNCHANGED <<cfg, now, store, last, returned, prompt, appended>>

\* one round of "while len(history) > 1" with the tokenizer's behaviour in it
TkLoop(t) ==
    /\ Local(t).pc = "tk_loop"
    /\ LET r == Local(t)
           h == entries[r.entry].history
       IN IF Len(h) <= 1 THEN TkFinish(t, r, "done")
          ELSE \E c \in TokenCounts : \E o \in {"counted"} \cup TokenizerErrors :
                 LET m == [r EXCEPT !.count = c] IN
                 IF o \in TokenizerErrors THEN TkFinish(t, [m EXCEPT !.err = o], "failed")
                 ELSE IF c <= cfg.history_max_tokens THEN TkFinish(t, m, "done")
                 ELSE IF Len(h) > 2
                 THEN /\ threads' = [threads EXCEPT ![t] = [m EXCEPT !.rounds = @ + 1]]
                      /\ entries' = [entries EXCEPT ![r.entry].history = DelOldestPair(@)]
                      /\ UNCHANGED <<cfg, now, store, last, returned, prompt, appended>>
                 ELSE TkFinish(t, m, "done")

NextTokenizer ==
    \/ \E u \in {1}, c \in {<<"a">>} : TkAdd("t1", "add_user_message", u, c)
    \/ \E u \in {1}, c \in {<<"a">>} : TkAdd("t1", "add_assistant_message", u, c)
    \/ TkPairs("t1")
    \/ TkLoop("t1")
    \/ \E u \in {1} : Local("t1").pc \in {"idle", "done", "failed"} /\ ClearHistory(u)

InitTokenizer == InitWith({0, 1}, {0, 5}, {0})

SpecTokenizer == InitTokenizer /\ [][NextTokenizer]_vars

\* ================================================================ claims
IsAdd(op) == op \in {"add_user_message", "add_assistant_message"}

RenderedTokens(history) == count_tokens(build_prompt_from_history(history, TRUE))

\* C1: in every reachable state every stored history is non-empty, starts
\* with the System turn carrying config.system_prompt, and has no System
\* turn at any later index.
C1_PinnedSystemTurn ==
    \A u \in DOMAIN store :
        LET h == HistoryOf(u) IN
        /\ Len(h) >= 1
        /\ h[1] = SystemTurn
        /\ \A i \in 2..Len(h) : h[i].role # "system"

\* C1 witness: an add whose truncation removed turns left the System turn
\* followed by a turn that was not at index 1 before.
C1_Witness ==
    /\ IsAdd(last.op)
    /\ last.dropped > 0
    /\ Len(HistoryOf(last.user)) >= 2
    /\ HistoryOf(last.user)[1] = SystemTurn

\* C2: with history_max_pairs = N > 0, after every add_user_message or
\* add_assistant_message the history of that user has at most 1 + 2N turns,
\* whatever history_max_tokens is.
C2_PairCap ==
    (cfg.history_max_pairs > 0 /\ IsAdd(last.op))
        => Len(HistoryOf(last.user)) <= 1 + 2 * cfg.history_max_pairs

\* C2 witness: with the token budget off, an add dropped a turn and left
\* exactly 1 + 2N turns.
C2_Witness ==
    /\ cfg.history_max_pairs > 0
    /\ cfg.history_max_tokens <= 0
    /\ IsAdd(last.op)
    /\ last.dropped = 1
    /\ Len(HistoryOf(last.user)) = 1 + 2 * cfg.history_max_pairs

\* C3: with history_max_tokens > 0, after every add the rendered history
\* (with the generation cue) counts at most history_max_tokens tokens, or
\* the history has at most 2 turns.
C3_TokenCap ==
    (cfg.history_max_tokens > 0 /\ IsAdd(last.op))
        => \/ RenderedTokens(HistoryOf(last.user)) <= cfg.history_max_tokens
           \/ Len(HistoryOf(last.user)) <= 2

\* C3 witness: the token pass removed the oldest pair and the turns that
\* remain, the one just added among them, fit the budget.
C3_Witness ==
    /\ cfg.history_max_tokens > 0
    /\ cfg.history_max_pairs <= 0
    /\ IsAdd(last.op)
    /\ last.dropped = 2
    /\ Len(HistoryOf(last.user)) = 2
    /\ RenderedTokens(HistoryOf(last.user)) <= cfg.history_max_tokens

\* C4 as claimed: with T > 0, after purge_inactive or any write call
\* (add_user_message or add_assistant_message) returns at time now, no
\* entry of the store has now - updated_at > T.  "now" is read in the
\* claim's favour: the clock value the call's sweep worked with, and for
\* add_assistant_message the one value it read.
C4_NoStaleAfterAnyWrite ==
    cfg.history_ttl_seconds > 0 =>
        /\ last.op \in {"purge_inactive", "add_user_message"} =>
            \A u \in DOMAIN store :
                last.current - entries[store[u]].updated_at <= cfg.history_ttl_seconds
        /\ last.op = "add_assistant_message" =>
            \A u \in DOMAIN store :
                now - entries[store[u]].updated_at <= cfg.history_ttl_seconds

\* C4 amended: with T > 0, after purge_inactive or add_user_message no
\* entry is more than T older than the clock value the sweep read, and the
\* sweep removed no entry that was at most T old at that value;
\* add_assistant_message runs no sweep and removes no entry.
C4_SweepOnUserWrite ==
    [][cfg.history_ttl_seconds > 0 =>
        /\ last'.op \in {"purge_inactive", "add_user_message"} =>
            /\ \A u \in DOMAIN store' :
                  last'.current - entries'[store'[u]].updated_at
                      <= cfg.history_ttl_seconds
            /\ \A u \in DOMAIN store :
                  last'.current - entries[store[u]].updated_at
                      <= cfg.history_ttl_seconds
                  => u \in DOMAIN store'
        /\ last'.op = "add_assistant_message" => DOMAIN store \subseteq DOMAIN store'
      ]_vars

\* C4 witness: an add_user_message of one user has swept the stale entry of
\* the other and kept nothing older than T.
C4_Witness ==
    /\ cfg.history_ttl_seconds > 0
    /\ last.op = "add_user_message"
    /\ last.swept = 1
    /\ ~last.created
    /\ DOMAIN store = {last.user}

\* C5: two get_history(u) calls in a row return equal sequences, and no
\* mutation the caller performs on the returned list or on a turn reached
\* through it changes the stored history.
C5_DefensiveCopy ==
    [][/\ (last.op = "get_history" /\ last'.op = "get_history" /\ last'.user = last.user)
            => Vals(returned') = Vals(returned)
       /\ last'.op = "caller_mutation" => (store' = store /\ entries' = entries)
      ]_vars

\* C6: clear_history(u) followed at once by get_history(u) returns exactly
\* [{System, config.system_prompt}], whether u had an entry or not.
C6_ClearThenGet ==
    (last.op = "get_history" /\ last.after_clear # "")
        => Vals(returned) = <<SystemTurn>>

\* C6 witness: get_history right after a clear_history that removed an entry.
C6_Witness ==
    /\ last.op = "get_history"
    /\ last.after_clear = "present"
    /\ Vals(returned) = <<SystemTurn>>

Min(a, b) == IF a <= b THEN a ELSE b

\* the budget cannot bind: it is off, or even the untruncated history fits
BudgetNotBinding(log) ==
    \/ cfg.history_max_tokens <= 0
    \/ RenderedTokens(<<SystemTurn>> \o log) <= cfg.history_max_tokens

\* C7: with history_max_pairs = N > 0 and the token budget not binding,
\* after k complete exchanges appended in strict alternation to a fresh
\* entry the history is [System] followed by the last min(k, N) exchanges
\* in call order.
C7_LastExchangesKept ==
    \A u \in DOMAIN store :
        LET log == LogOf(u)
            k == Len(log) \div 2
            kept == 2 * Min(k, cfg.history_max_pairs)
        IN (/\ cfg.history_max_pairs > 0
            /\ BudgetNotBinding(log)
            /\ Len(log) % 2 = 0
            /\ \A i \in 1..Len(log) :
                  log[i].role = (IF i % 2 = 1 THEN "user" ELSE "assistant"))
           => HistoryOf(u) = <<SystemTurn>> \o SubSeq(log, Len(log) - kept + 1, Len(log))

\* C7 witness: N = 2, a positive budget that does not bind, three exchanges
\* A, B, C appended: five turns are stored.
C7_Witness ==
    /\ cfg.history_max_pairs = 2
    /\ cfg.history_max_tokens > 0
    /\ 1 \in DOMAIN store
    /\ Len(LogOf(1)) = 6
    /\ BudgetNotBinding(LogOf(1))
    /\ Len(HistoryOf(1)) = 5

RECURSIVE Merges(_, _)
Merges(a, b) ==
    IF a = <<>> THEN {b}
    ELSE IF b = <<>> THEN {a}
    ELSE {<<Head(a)>> \o m : m \in Merges(Tail(a), b)}
         \cup {<<Head(b)>> \o m : m \in Merges(a, Tail(b))}

\* the history after the add calls `calls`, run one at a time on history h
RECURSIVE OneAtATime(_, _)
OneAtATime(h, calls) ==
    IF calls = <<>> THEN h
    ELSE OneAtATime(truncate_history(Append(h, Head(calls))), Tail(calls))

\* C8: when handlers add turns for the same user concurrently, the stored
\* history is the one some one-at-a-time order of their calls, consistent
\* with each handler's own order, produces.  Stated for the first two
\* handlers, when both have finished and no entry can have been swept (the
\* clock has not passed the TTL).
C8_AddsSerialized ==
    \A u \in Users :
        (/\ now <= cfg.history_ttl_seconds
         /\ \A t \in Threads :
               /\ threads[t].handler = "message"
               /\ threads[t].pc = "done"
               /\ threads[t].user = u
               /\ threads[t].served = 1)
        => /\ u \in DOMAIN store
           /\ HistoryOf(u) \in
                {OneAtATime(<<SystemTurn>>, m) :
                    m \in Merges(threads["t1"].calls, threads["t2"].calls)}

\* C9: the sweep is safe under every interleaving with handlers that
\* insert or delete entries: no call ends in an error (RuntimeError from
\* the dict changing size during the scan, KeyError from deleting a key
\* that is gone).
C9_SweepNeverFails ==
    \A t \in Threads : threads[t].pc # "failed"

\* C10 as claimed: build_prompt leaves the store unchanged, for a user in
\* the store or not.
C10_BuildPromptPure ==
    [][last'.op = "build_prompt" => (store' = store /\ entries' = entries)]_vars

\* C10 amended: build_prompt(u, flag) leaves the store unchanged when u has
\* an entry; when u has none it inserts the entry [System turn] with
\* updated_at = now and leaves every other entry unchanged.
C10_BuildPromptEnsures ==
    [][last'.op = "build_prompt" =>
        LET u == last'.user IN
        /\ u \in DOMAIN store => (store' = store /\ entries' = entries)
        /\ u \notin DOMAIN store =>
            /\ DOMAIN store' = DOMAIN store \cup {u}
            /\ entries'[store'[u]] = [history |-> <<SystemTurn>>, updated_at |-> now']
            /\ \A v \in DOMAIN store :
                  /\ store'[v] = store[v]
                  /\ entries'[store'[v]] = entries[store[v]]
      ]_vars

\* C10 witness: build_prompt has created the entry of one user while the
\* other user has a history with appended turns.
C10_Witness ==
    /\ last.op = "build_prompt"
    /\ last.created
    /\ \E v \in DOMAIN store : v # last.user /\ Len(HistoryOf(v)) > 1

\* C11: when the tokenizer fails during the truncation an add call runs, the
\* entry is left as it was when the truncation began or fully truncated:
\* the pair-count slice applied and the token loop with nothing left to do
\* (at most two turns, or a history the tokenizer counts within the budget).
C11_TruncationAllOrNothing ==
    \A t \in Threads :
        (/\ threads[t].pc = "failed"
         /\ threads[t].err \in TokenizerErrors
         /\ IsAdd(last.op))
        => LET h == HistoryOf(threads[t].user)
           IN \/ h = threads[t].before
              \/ Len(h) <= 2
              \/ threads[t].count <= cfg.history_max_tokens

\* the rendering the specification describes: per turn the tag line of its
\* role, the content and a newline; a bare assistant tag line when the flag
\* is set
RECURSIVE C12_Described(_, _)
C12_Described(history, flag) ==
    IF history = <<>>
    THEN (IF flag THEN <<"<|assistant|>", "\n">> ELSE <<>>)
    ELSE <<"<|" \o Head(history).role \o "|>", "\n">> \o Head(history).content \o <<"\n">>
            \o C12_Described(Tail(history), flag)

\* C12: without a tokenizer, for every stored history and both flag values
\* build_prompt and build_prompt_from_history return the same string, the
\* described concatenation, and the string build_prompt returned is that
\* string for one of the flag values.
C12_SameRendering ==
    /\ \A u \in DOMAIN store : \A f \in Flags :
          /\ build_prompt_text(HistoryOf(u), f) = build_prompt_from_history(HistoryOf(u), f)
          /\ build_prompt_text(HistoryOf(u), f) = C12_Described(HistoryOf(u), f)
    /\ last.op = "build_prompt" =>
          prompt \in {build_prompt_from_history(HistoryOf(last.user), f) : f \in Flags}

\* C12 witness: build_prompt returned, with the cue, the rendering of a
\* history that holds a user turn and an assistant turn.
C12_Witness ==
    /\ last.op = "build_prompt"
    /\ \E i, j \in 2..Len(HistoryOf(last.user)) :
          HistoryOf(last.user)[i].role = "user" /\ HistoryOf(last.user)[j].role = "assistant"
    /\ prompt = C12_Described(HistoryOf(last.user), TRUE)

\* C13: every pair the token loop deletes is a User turn followed by an
\* Assistant turn, for every history the add calls can build.
C13_DeletesWholeExchange ==
    IsAdd(last.op) =>
        \A i \in 1..Len(last.deleted) : last.deleted[i] = <<"user", "assistant">>

\* C14: after add_user_message(u, c) returns, the last turn of u's stored
\* history is {User, c}.
C14_UserMessageStored ==
    last.op = "add_user_message" =>
        LET h == HistoryOf(last.user)
        IN h[Len(h)] = [role |-> "user", content |-> last.content]

\* C15: when the add_assistant_message of an exchange runs, the entry its
\* add_user_message appended to is still in the store, so the call never
\* has to create the user's entry.  Stated for two handlers of different
\* users, each thread's first request, so that no clear_history has run.
C15_ReplyFindsEntry ==
    (/\ \A t \in Threads : threads[t].served <= 1 /\ threads[t].handler \in {"", "message"}
     /\ threads["t1"].user # threads["t2"].user)
    => \A t \in Threads :
          ~(threads[t].pc = "ensure_new" /\ threads[t].phase = "add_assistant_message")

\* C16: with history_max_pairs <= 0 the pair-count pass of an add drops no
\* turn, with history_max_tokens <= 0 the token pass drops none, and with
\* both the add leaves the history it found (the System turn alone for a
\* new entry) with the new turn appended.
C16_SentinelDisables ==
    [][IsAdd(last'.op) =>
        LET u == last'.user
            found == IF last'.created THEN <<SystemTurn>> ELSE HistoryOf(u)
            turn == [role |-> IF last'.op = "add_user_message" THEN "user" ELSE "assistant",
                     content |-> last'.content]
        IN /\ cfg.history_max_pairs <= 0 => last'.dropped = 2 * Len(last'.deleted)
           /\ cfg.history_max_tokens <= 0 => last'.deleted = <<>>
           /\ (cfg.history_max_pairs <= 0 /\ cfg.history_max_tokens <= 0)
                => entries'[store'[u]].history = Append(found, turn)
      ]_vars

\* C16 witness: both limits negative, four turns appended and all stored.
C16_Witness ==
    /\ cfg.history_max_pairs < 0
    /\ cfg.history_max_tokens < 0
    /\ IsAdd(last.op)
    /\ Len(HistoryOf(last.user)) >= 5

\* C17: the token loop makes at most floor((len - 1) / 2) deletions, len
\* the length of the history it starts with; every round that does not
\* leave the loop shortens the history by two turns; at least one turn
\* remains.  Whatever the tokenizer answers.
C17_TokenLoopBounded ==
    \A t \in Threads :
        LET r == threads[t] IN
        (/\ r.start # <<>>
         /\ r.pc = "tk_loop" \/ (r.pc \in {"done", "failed"} /\ IsAdd(last.op)))
        => LET h == IF r.pc = "tk_loop" THEN entries[r.entry].history
                    ELSE HistoryOf(r.user)
           IN /\ r.rounds <= (Len(r.start) - 1) \div 2
              /\ Len(h) = Len(r.start) - 2 * r.rounds
              /\ Len(h) >= 1

\* C17 witness: the loop started with five turns, deleted twice and
\* returned with the System turn alone.
C17_Witness ==
    \E t \in Threads :
        /\ threads[t].pc = "done"
        /\ IsAdd(last.op)
        /\ Len(threads[t].start) = 5
        /\ threads[t].rounds = 2
        /\ HistoryOf(threads[t].user) = <<SystemTurn>>

\* C19: handlers that make the first call for the same absent user at the
\* same time create one entry and all work on it: the entry a handler holds
\* is the one the store has under the user's id.  Stated while nothing can
\* have removed an entry: no clear_history has run (each thread's first
\* request, a message) and the clock has not passed the TTL.
C19_OneEntryPerUser ==
    (/\ now <= cfg.history_ttl_seconds
     /\ \A t \in Threads : threads[t].served <= 1 /\ threads[t].handler \in {"", "message"})
    => \A t \in Threads :
          threads[t].entry # NoEntry
          => /\ threads[t].user \in DOMAIN store
             /\ store[threads[t].user] = threads[t].entry

\* C18: add_assistant_message, get_history, build_prompt and clear_history
\* leave the entry of every user other than their own in the store and
\* unchanged, stale or not; get_history and build_prompt on a user that has
\* an entry leave that entry unchanged too.
C18_OnlyUserWriteSweeps ==
    [][last'.op \in {"add_assistant_message", "get_history", "build_prompt", "clear_history"} =>
        /\ \A v \in DOMAIN store \ {last'.user} :
              /\ v \in DOMAIN store'
              /\ entries'[store'[v]] = entries[store[v]]
        /\ (last'.op \in {"get_history", "build_prompt"} /\ last'.user \in DOMAIN store)
              => entries'[store'[last'.user]] = entries[store[last'.user]]
      ]_vars

\* C18 witness: get_history of one user has returned while the entry of the
\* other user, older than the TTL, is in the store.
C18_Witness ==
    /\ cfg.history_ttl_seconds > 0
    /\ last.op = "get_history"
    /\ \E v \in DOMAIN store \ {last.user} :
          now - entries[store[v]].updated_at > cfg.history_ttl_seconds

\* C20: an add call of user u leaves the entry of every other user v as it
\* was, except that add_user_message removes v's entry when the TTL is
\* positive and v's entry is older than the TTL at the clock value the sweep
\* read.
C20_OtherUsersUntouched ==
    [][IsAdd(last'.op) =>
        \A v \in DOMAIN store \ {last'.user} :
            \/ /\ v \in DOMAIN store'
               /\ entries'[store'[v]] = entries[store[v]]
            \/ /\ v \notin DOMAIN store'
               /\ last'.op = "add_user_message"
               /\ cfg.history_ttl_seconds > 0
               /\ last'.current - entries[store[v]].updated_at > cfg.history_ttl_seconds
      ]_vars

\* C20 witness: with a positive TTL, an add_user_message whose sweep removed
\* nothing has returned and the other user's entry holds an appended turn.
C20_Witness ==
    /\ cfg.history_ttl_seconds > 0
    /\ last.op = "add_user_message"
    /\ last.swept = 0
    /\ \E v \in DOMAIN store \ {last.user} : Len(HistoryOf(v)) > 1

====
